---- MODULE Spec2Model ----
(***************************************************************************)
(* A model of package qp (goloop/qp): typed extraction of URL query        *)
(* parameters.  Strings are sequences of one-character strings, so that    *)
(* query parsing, strconv conversions, splitting and lower-casing are      *)
(* computed rather than assumed.  float64 values are fixed-point numbers   *)
(* counted in tenths.  A Go slice is a record that keeps nil apart from    *)
(* the empty slice; a Go pointer is a tuple of length 0 (nil) or 1.        *)
(***************************************************************************)
EXTENDS Integers, Sequences, FiniteSets, TLC

\* u is the raw query of the URL the caller holds.  inv is the invocation in
\* progress: the name of the function called, then its key, its options and
\* what it returned (the name comes first so that invocations of different
\* functions, whose values have different types, are told apart by name).
\* callers holds, for each of the goroutines that share the URL in the
\* concurrent specification, its invocation and how far it has got.
VARIABLES u, inv, callers

vars == <<u, inv, callers>>

\* The call of the invocation and the value it returned.
call == [fn |-> inv[1], key |-> inv[2].key, opt |-> inv[2].opt]

ret == inv[2].ret

\* Bounds of the model.
MaxParams == 2
MaxOpts == 3
\* The options passed through Get and Pull, which hand them to Parse.
MaxGetOpts == 2

-----------------------------------------------------------------------------
\* Go values.

NilSlice == [nil |-> TRUE, elems |-> <<>>]

Slice(s) == [nil |-> FALSE, elems |-> s]

NilPtr == <<>>

Ptr(v) == <<v>>

NoError == [kind |-> "nil", key |-> <<>>]

ErrInvalid(key) == [kind |-> "invalid value for key", key |-> key]

ErrRange(key) == [kind |-> "value out of range for key", key |-> key]

\* g.In(v, vs...): v equals one of vs.
In(v, vs) == \E i \in 1..Len(vs) : vs[i] = v

-----------------------------------------------------------------------------
\* Strings.

Digits == {"0", "1", "2", "3", "4", "5", "6", "7", "8", "9"}

DigitVal(c) ==
  CASE c = "0" -> 0 [] c = "1" -> 1 [] c = "2" -> 2 [] c = "3" -> 3
    [] c = "4" -> 4 [] c = "5" -> 5 [] c = "6" -> 6 [] c = "7" -> 7
    [] c = "8" -> 8 [] c = "9" -> 9

\* unicode.ToLower on the letters the model uses.
LowerChar(c) ==
  CASE c = "O" -> "o" [] c = "N" -> "n" [] c = "T" -> "t" [] c = "R" -> "r"
    [] c = "U" -> "u" [] c = "E" -> "e" [] c = "Y" -> "y" [] c = "S" -> "s"
    [] c = "F" -> "f" [] c = "A" -> "a" [] c = "L" -> "l" [] c = "X" -> "x"
    [] OTHER -> c

\* strings.ToLower
ToLower(s) == [i \in 1..Len(s) |-> LowerChar(s[i])]

\* Index of the first occurrence of character c in s, 0 when there is none.
IndexOf(s, c) ==
  LET at == {i \in 1..Len(s) : s[i] = c}
  IN IF at = {} THEN 0 ELSE CHOOSE i \in at : \A j \in at : i <= j

RECURSIVE Split(_, _)
\* strings.Split(s, sep) for a one-character separator: never empty, and
\* Split("", sep) is the one-element list holding the empty string.
Split(s, sep) ==
  LET i == IndexOf(s, sep)
  IN IF i = 0 THEN <<s>>
     ELSE <<SubSeq(s, 1, i - 1)>> \o Split(SubSeq(s, i + 1, Len(s)), sep)

RECURSIVE DigitsValue(_)
\* The number a non-empty string of decimal digits denotes.
DigitsValue(s) ==
  IF Len(s) = 0 THEN 0
  ELSE 10 * DigitsValue(SubSeq(s, 1, Len(s) - 1)) + DigitVal(s[Len(s)])

AllDigits(s) == \A i \in 1..Len(s) : s[i] \in Digits

\* strconv.Atoi: an optional sign followed by one or more decimal digits.
\* The result is [ok, val]; ok = FALSE is the *NumError return.  The strings
\* of the model are short, so the range error of a 64-bit int cannot occur.
Atoi(s) ==
  LET signed == Len(s) > 0 /\ s[1] \in {"+", "-"}
      body == IF signed THEN SubSeq(s, 2, Len(s)) ELSE s
  IN IF Len(body) > 0 /\ AllDigits(body)
     THEN [ok |-> TRUE,
           val |-> IF signed /\ s[1] = "-" THEN 0 - DigitsValue(body)
                   ELSE DigitsValue(body)]
     ELSE [ok |-> FALSE, val |-> 0]

\* strconv.ParseFloat(s, 64) on decimal literals without exponent: an
\* optional sign, digits, and optionally a point followed by at most one
\* digit (the precision of the fixed-point representation, in tenths).
ParseFloat64(s) ==
  LET signed == Len(s) > 0 /\ s[1] \in {"+", "-"}
      body == IF signed THEN SubSeq(s, 2, Len(s)) ELSE s
      p == IndexOf(body, ".")
      whole == IF p = 0 THEN body ELSE SubSeq(body, 1, p - 1)
      frac == IF p = 0 THEN <<>> ELSE SubSeq(body, p + 1, Len(body))
      good == /\ Len(whole) + Len(frac) > 0
              /\ AllDigits(whole) /\ AllDigits(frac)
              /\ Len(frac) <= 1
      mag == 10 * DigitsValue(whole) + DigitsValue(frac)
  IN IF good
     THEN [ok |-> TRUE, val |-> IF signed /\ s[1] = "-" THEN 0 - mag ELSE mag]
     ELSE [ok |-> FALSE, val |-> 0]

-----------------------------------------------------------------------------
\* The query accessor: url.URL.Query(), i.e. url.ParseQuery(u.RawQuery), on
\* raw queries without escapes ("%", "+") and without ";".

RECURSIVE Pairs(_)
\* The (key, value) pairs of the segments, in order; empty segments are
\* skipped and a segment without "=" has the empty value.
Pairs(segs) ==
  IF Len(segs) = 0 THEN <<>>
  ELSE LET seg == Head(segs)
           i == IndexOf(seg, "=")
           pair == IF i = 0 THEN <<seg, <<>>>>
                   ELSE <<SubSeq(seg, 1, i - 1), SubSeq(seg, i + 1, Len(seg))>>
       IN IF Len(seg) = 0 THEN Pairs(Tail(segs))
          ELSE <<pair>> \o Pairs(Tail(segs))

RECURSIVE ValuesOf(_, _)
\* The values paired with key, in order of occurrence.
ValuesOf(pairs, key) ==
  IF Len(pairs) = 0 THEN <<>>
  ELSE IF Head(pairs)[1] = key
       THEN <<Head(pairs)[2]>> \o ValuesOf(Tail(pairs), key)
       ELSE ValuesOf(Tail(pairs), key)

\* url.Values: a map from each key that occurs to its list of values.
Query(raw) ==
  LET pairs == Pairs(Split(raw, "&"))
  IN [k \in {pairs[i][1] : i \in 1..Len(pairs)} |-> ValuesOf(pairs, k)]

-----------------------------------------------------------------------------
\* int.go

\* IntOptions where a single option sets Default but not Value.
IntOptionsValueUnset(key, opt) ==
  LET r0 == [Key |-> key, Value |-> 0, Default |-> 0, Min |-> 0, Max |-> 0,
             Others |-> NilSlice, Empty |-> FALSE, Contains |-> TRUE,
             Error |-> NoError]
  IN IF Len(opt) = 1
     THEN [r0 EXCEPT !.Default = opt[1]]
     ELSE IF Len(opt) > 1
     THEN LET min == IF opt[1] > opt[2] THEN opt[2] ELSE opt[1]
              max == IF opt[1] > opt[2] THEN opt[1] ELSE opt[2]
          IN [r0 EXCEPT !.Min = min, !.Max = max,
                        !.Default = opt[1], !.Value = opt[1],
                        !.Others = IF Len(opt) > 2
                                   THEN Slice(SubSeq(opt, 3, Len(opt)))
                                   ELSE NilSlice]
     ELSE r0

\* IntOptions where the default is the lower bound, not the first option.
IntOptionsDefaultMin(key, opt) ==
  LET r0 == [Key |-> key, Value |-> 0, Default |-> 0, Min |-> 0, Max |-> 0,
             Others |-> NilSlice, Empty |-> FALSE, Contains |-> TRUE,
             Error |-> NoError]
  IN IF Len(opt) = 1
     THEN [r0 EXCEPT !.Default = opt[1], !.Value = opt[1]]
     ELSE IF Len(opt) > 1
     THEN LET min == IF opt[1] > opt[2] THEN opt[2] ELSE opt[1]
              max == IF opt[1] > opt[2] THEN opt[1] ELSE opt[2]
          IN [r0 EXCEPT !.Min = min, !.Max = max,
                        !.Default = min, !.Value = min,
                        !.Others = IF Len(opt) > 2
                                   THEN Slice(SubSeq(opt, 3, Len(opt)))
                                   ELSE NilSlice]
     ELSE r0

\* Result[int] as ParseInt holds it after the options are read.
IntOptions(key, opt) ==
  LET r0 == [Key |-> key, Value |-> 0, Default |-> 0, Min |-> 0, Max |-> 0,
             Others |-> NilSlice, Empty |-> FALSE, Contains |-> TRUE,
             Error |-> NoError]
  IN IF Len(opt) = 1
     THEN [r0 EXCEPT !.Default = opt[1], !.Value = opt[1]]
     ELSE IF Len(opt) > 1
     THEN LET min == IF opt[1] > opt[2] THEN opt[2] ELSE opt[1]
              max == IF opt[1] > opt[2] THEN opt[1] ELSE opt[2]
          IN [r0 EXCEPT !.Min = min, !.Max = max,
                        !.Default = opt[1], !.Value = opt[1],
                        !.Others = IF Len(opt) > 2
                                   THEN Slice(SubSeq(opt, 3, Len(opt)))
                                   ELSE NilSlice]
     ELSE r0

\* IntValidate with the bounds of the range excluded.
IntValidateExclusive(result, value, opt) ==
  IF Len(opt) < 2
  THEN [result EXCEPT !.Value = value]
  ELSE IF value > result.Min /\ value < result.Max
  THEN [result EXCEPT !.Value = value]
  ELSE IF ~result.Others.nil /\ In(value, result.Others.elems)
  THEN [result EXCEPT !.Value = value]
  ELSE [result EXCEPT !.Error = ErrRange(result.Key)]

\* The range and allow-list check of ParseInt on a converted value.
IntValidate(result, value, opt) ==
  IF Len(opt) < 2
  THEN [result EXCEPT !.Value = value]
  ELSE IF value >= result.Min /\ value <= result.Max
  THEN [result EXCEPT !.Value = value]
  ELSE IF ~result.Others.nil /\ In(value, result.Others.elems)
  THEN [result EXCEPT !.Value = value]
  ELSE [result EXCEPT !.Error = ErrRange(result.Key)]

\* ParseInt that converts the last occurrence of the key.
ParseIntLastValue(raw, key, opt) ==
  LET q == Query(raw)
      ok == key \in DOMAIN q
      result == IntOptions(key, opt)
  IN IF ~ok
     THEN [result EXCEPT !.Empty = TRUE, !.Contains = FALSE]
     ELSE IF q[key][1] = <<>>
     THEN [result EXCEPT !.Empty = TRUE, !.Contains = TRUE]
     ELSE LET conv == Atoi(q[key][Len(q[key])])
          IN IF ~conv.ok
             THEN [result EXCEPT !.Error = ErrInvalid(key)]
             ELSE IntValidate(result, conv.val, opt)

ParseInt(raw, key, opt) ==
  LET q == Query(raw)
      ok == key \in DOMAIN q
      result == IntOptions(key, opt)
  IN IF ~ok
     THEN [result EXCEPT !.Empty = TRUE, !.Contains = FALSE]
     ELSE IF q[key][1] = <<>>
     THEN [result EXCEPT !.Empty = TRUE, !.Contains = TRUE]
     ELSE LET conv == Atoi(q[key][1])
          IN IF ~conv.ok
             THEN [result EXCEPT !.Error = ErrInvalid(key)]
             ELSE IntValidate(result, conv.val, opt)

\* GetInt with the emptiness test left out of the validity flag.
GetIntNoEmpty(raw, key, opt) ==
  LET data == ParseInt(raw, key, opt)
  IN <<data.Value, data.Contains /\ data.Error = NoError>>

GetInt(raw, key, opt) ==
  LET data == ParseInt(raw, key, opt)
  IN <<data.Value, data.Contains /\ ~data.Empty /\ data.Error = NoError>>

\* PullInt returning a pointer to the default when the key is absent.
PullIntDefault(raw, key, opt) ==
  LET data == ParseInt(raw, key, opt)
  IN Ptr(data.Value)

PullInt(raw, key, opt) ==
  LET data == ParseInt(raw, key, opt)
  IN IF ~data.Contains THEN NilPtr ELSE Ptr(data.Value)

RECURSIVE IntElements(_, _)
\* The conversion loop of ParseIntSlice over the raw elements strs: the
\* converted values so far, or the failure that stops the loop.
IntElements(strs, acc) ==
  IF Len(strs) = 0 THEN [ok |-> TRUE, vals |-> acc]
  ELSE LET conv == Atoi(Head(strs))
       IN IF ~conv.ok THEN [ok |-> FALSE, vals |-> <<>>]
          ELSE IntElements(Tail(strs), Append(acc, conv.val))

\* IntSliceStrings that also splits the first occurrence of a repeated key.
IntSliceStringsSplitFirst(data) ==
  IF Len(data) > 1 THEN Split(data[1], ",") \o Tail(data)
  ELSE Split(data[1], ",")

\* The raw elements ParseIntSlice converts: every occurrence of the key
\* when it is repeated, else the comma-separated pieces of the one value.
\* (The source has one loop for each of the two cases; the loops are the
\* same, IntElements.)
IntSliceStrings(data) ==
  IF Len(data) > 1 THEN data ELSE Split(data[1], ",")

\* ParseIntSlice that leaves Value as it stands when an element fails.
ParseIntSliceKeepValue(raw, key, opt) ==
  LET q == Query(raw)
      ok == key \in DOMAIN q
      r0 == [Key |-> key, Value |-> Slice(<<>>), Default |-> Slice(<<>>),
             Min |-> NilSlice, Max |-> NilSlice, Others |-> NilSlice,
             Empty |-> FALSE, Contains |-> TRUE, Error |-> NoError]
      result == IF Len(opt) > 0
                THEN [r0 EXCEPT !.Default = opt[1], !.Value = opt[1]]
                ELSE r0
  IN IF ~ok
     THEN [result EXCEPT !.Empty = TRUE, !.Contains = FALSE]
     ELSE IF q[key][1] = <<>>
     THEN [result EXCEPT !.Empty = TRUE, !.Contains = TRUE]
     ELSE LET conv == IntElements(IntSliceStrings(q[key]), <<>>)
          IN IF ~conv.ok
             THEN [result EXCEPT !.Error = ErrInvalid(key)]
             ELSE [result EXCEPT !.Value = Slice(conv.vals)]

ParseIntSlice(raw, key, opt) ==
  LET q == Query(raw)
      ok == key \in DOMAIN q
      r0 == [Key |-> key, Value |-> Slice(<<>>), Default |-> Slice(<<>>),
             Min |-> NilSlice, Max |-> NilSlice, Others |-> NilSlice,
             Empty |-> FALSE, Contains |-> TRUE, Error |-> NoError]
      result == IF Len(opt) > 0
                THEN [r0 EXCEPT !.Default = opt[1], !.Value = opt[1]]
                ELSE r0
  IN IF ~ok
     THEN [result EXCEPT !.Empty = TRUE, !.Contains = FALSE]
     ELSE IF q[key][1] = <<>>
     THEN [result EXCEPT !.Empty = TRUE, !.Contains = TRUE]
     ELSE LET conv == IntElements(IntSliceStrings(q[key]), <<>>)
          IN IF ~conv.ok
             THEN [result EXCEPT !.Error = ErrInvalid(key),
                                 !.Value = Slice(<<>>)]
             ELSE [result EXCEPT !.Value = Slice(conv.vals)]

GetIntSlice(raw, key, opt) ==
  LET data == ParseIntSlice(raw, key, opt)
  IN <<data.Value, data.Contains /\ ~data.Empty /\ data.Error = NoError>>

PullIntSlice(raw, key, opt) ==
  LET data == ParseIntSlice(raw, key, opt)
  IN IF ~data.Contains THEN NilSlice ELSE data.Value

-----------------------------------------------------------------------------
\* float.go

\* FloatOptions that keeps the upper bound of the range among the others.
FloatOptionsOthersFromMax(key, opt) ==
  LET r0 == [Key |-> key, Value |-> 0, Default |-> 0, Min |-> 0, Max |-> 0,
             Others |-> NilSlice, Empty |-> FALSE, Contains |-> TRUE,
             Error |-> NoError]
  IN IF Len(opt) = 1
     THEN [r0 EXCEPT !.Default = opt[1], !.Value = opt[1]]
     ELSE IF Len(opt) > 1
     THEN LET min == IF opt[1] > opt[2] THEN opt[2] ELSE opt[1]
              max == IF opt[1] > opt[2] THEN opt[1] ELSE opt[2]
          IN [r0 EXCEPT !.Min = min, !.Max = max,
                        !.Default = opt[1], !.Value = opt[1],
                        !.Others = Slice(SubSeq(opt, 2, Len(opt)))]
     ELSE r0

\* FloatOptions that takes the first two options as Min and Max in the
\* order given, without exchanging them.
FloatOptionsNoSwap(key, opt) ==
  LET r0 == [Key |-> key, Value |-> 0, Default |-> 0, Min |-> 0, Max |-> 0,
             Others |-> NilSlice, Empty |-> FALSE, Contains |-> TRUE,
             Error |-> NoError]
  IN IF Len(opt) = 1
     THEN [r0 EXCEPT !.Default = opt[1], !.Value = opt[1]]
     ELSE IF Len(opt) > 1
     THEN [r0 EXCEPT !.Min = opt[1], !.Max = opt[2],
                     !.Default = opt[1], !.Value = opt[1],
                     !.Others = IF Len(opt) > 2
                                THEN Slice(SubSeq(opt, 3, Len(opt)))
                                ELSE NilSlice]
     ELSE r0

\* Result[float64] as ParseFloat holds it after the options are read.
FloatOptions(key, opt) ==
  LET r0 == [Key |-> key, Value |-> 0, Default |-> 0, Min |-> 0, Max |-> 0,
             Others |-> NilSlice, Empty |-> FALSE, Contains |-> TRUE,
             Error |-> NoError]
  IN IF Len(opt) = 1
     THEN [r0 EXCEPT !.Default = opt[1], !.Value = opt[1]]
     ELSE IF Len(opt) > 1
     THEN LET min == IF opt[1] > opt[2] THEN opt[2] ELSE opt[1]
              max == IF opt[1] > opt[2] THEN opt[1] ELSE opt[2]
          IN [r0 EXCEPT !.Min = min, !.Max = max,
                        !.Default = opt[1], !.Value = opt[1],
                        !.Others = IF Len(opt) > 2
                                   THEN Slice(SubSeq(opt, 3, Len(opt)))
                                   ELSE NilSlice]
     ELSE r0

\* FloatValidate that checks the range whatever the number of options.
FloatValidateAlways(result, value, opt) ==
  IF value >= result.Min /\ value <= result.Max
  THEN [result EXCEPT !.Value = value]
  ELSE IF ~result.Others.nil /\ In(value, result.Others.elems)
  THEN [result EXCEPT !.Value = value]
  ELSE [result EXCEPT !.Error = ErrRange(result.Key)]

\* The range and allow-list check of ParseFloat on a converted value.
FloatValidate(result, value, opt) ==
  IF Len(opt) < 2
  THEN [result EXCEPT !.Value = value]
  ELSE IF value >= result.Min /\ value <= result.Max
  THEN [result EXCEPT !.Value = value]
  ELSE IF ~result.Others.nil /\ In(value, result.Others.elems)
  THEN [result EXCEPT !.Value = value]
  ELSE [result EXCEPT !.Error = ErrRange(result.Key)]

\* ParseFloat that leaves Empty unset when the key is absent.
ParseFloatAbsentNotEmpty(raw, key, opt) ==
  LET q == Query(raw)
      ok == key \in DOMAIN q
      result == FloatOptions(key, opt)
  IN IF ~ok
     THEN [result EXCEPT !.Contains = FALSE]
     ELSE IF q[key][1] = <<>>
     THEN [result EXCEPT !.Empty = TRUE, !.Contains = TRUE]
     ELSE LET conv == ParseFloat64(q[key][1])
          IN IF ~conv.ok
             THEN [result EXCEPT !.Error = ErrInvalid(key)]
             ELSE FloatValidate(result, conv.val, opt)

ParseFloat(raw, key, opt) ==
  LET q == Query(raw)
      ok == key \in DOMAIN q
      result == FloatOptions(key, opt)
  IN IF ~ok
     THEN [result EXCEPT !.Empty = TRUE, !.Contains = FALSE]
     ELSE IF q[key][1] = <<>>
     THEN [result EXCEPT !.Empty = TRUE, !.Contains = TRUE]
     ELSE LET conv == ParseFloat64(q[key][1])
          IN IF ~conv.ok
             THEN [result EXCEPT !.Error = ErrInvalid(key)]
             ELSE FloatValidate(result, conv.val, opt)

GetFloat(raw, key, opt) ==
  LET data == ParseFloat(raw, key, opt)
  IN <<data.Value, data.Contains /\ ~data.Empty /\ data.Error = NoError>>

PullFloat(raw, key, opt) ==
  LET data == ParseFloat(raw, key, opt)
  IN IF ~data.Contains THEN NilPtr ELSE Ptr(data.Value)

RECURSIVE FloatElements(_, _)
\* The conversion loop of ParseFloatSlice over the raw elements strs: the
\* converted values so far, or the failure that stops the loop.
FloatElements(strs, acc) ==
  IF Len(strs) = 0 THEN [ok |-> TRUE, vals |-> acc]
  ELSE LET conv == ParseFloat64(Head(strs))
       IN IF ~conv.ok THEN [ok |-> FALSE, vals |-> <<>>]
          ELSE FloatElements(Tail(strs), Append(acc, conv.val))

\* FloatSliceStrings that leaves the empty elements out.
FloatSliceStringsNoEmpty(data) ==
  SelectSeq(IF Len(data) > 1 THEN data ELSE Split(data[1], ","),
            LAMBDA e : e # <<>>)

\* The raw elements ParseFloatSlice converts: every occurrence of the key
\* when it is repeated, else the comma-separated pieces of the one value.
FloatSliceStrings(data) ==
  IF Len(data) > 1 THEN data ELSE Split(data[1], ",")

\* ParseFloatSlice that appends the converted elements to the default.
ParseFloatSliceAppendToDefault(raw, key, opt) ==
  LET q == Query(raw)
      ok == key \in DOMAIN q
      r0 == [Key |-> key, Value |-> Slice(<<>>), Default |-> Slice(<<>>),
             Min |-> NilSlice, Max |-> NilSlice, Others |-> NilSlice,
             Empty |-> FALSE, Contains |-> TRUE, Error |-> NoError]
      result == IF Len(opt) > 0
                THEN [r0 EXCEPT !.Default = opt[1], !.Value = opt[1]]
                ELSE r0
  IN IF ~ok
     THEN [result EXCEPT !.Empty = TRUE, !.Contains = FALSE]
     ELSE IF q[key][1] = <<>>
     THEN [result EXCEPT !.Empty = TRUE, !.Contains = TRUE]
     ELSE LET conv == FloatElements(FloatSliceStrings(q[key]), <<>>)
          IN IF ~conv.ok
             THEN [result EXCEPT !.Error = ErrInvalid(key),
                                 !.Value = Slice(<<>>)]
             ELSE [result EXCEPT
                     !.Value = Slice(result.Value.elems \o conv.vals)]

ParseFloatSlice(raw, key, opt) ==
  LET q == Query(raw)
      ok == key \in DOMAIN q
      r0 == [Key |-> key, Value |-> Slice(<<>>), Default |-> Slice(<<>>),
             Min |-> NilSlice, Max |-> NilSlice, Others |-> NilSlice,
             Empty |-> FALSE, Contains |-> TRUE, Error |-> NoError]
      result == IF Len(opt) > 0
                THEN [r0 EXCEPT !.Default = opt[1], !.Value = opt[1]]
                ELSE r0
  IN IF ~ok
     THEN [result EXCEPT !.Empty = TRUE, !.Contains = FALSE]
     ELSE IF q[key][1] = <<>>
     THEN [result EXCEPT !.Empty = TRUE, !.Contains = TRUE]
     ELSE LET conv == FloatElements(FloatSliceStrings(q[key]), <<>>)
          IN IF ~conv.ok
             THEN [result EXCEPT !.Error = ErrInvalid(key),
                                 !.Value = Slice(<<>>)]
             ELSE [result EXCEPT !.Value = Slice(conv.vals)]

GetFloatSlice(raw, key, opt) ==
  LET data == ParseFloatSlice(raw, key, opt)
  IN <<data.Value, data.Contains /\ ~data.Empty /\ data.Error = NoError>>

PullFloatSlice(raw, key, opt) ==
  LET data == ParseFloatSlice(raw, key, opt)
  IN IF ~data.Contains THEN NilSlice ELSE data.Value

-----------------------------------------------------------------------------
\* string.go

\* StringOptions where the allow-list leaves the default out.
StringOptionsOthersTail(key, opt) ==
  LET r0 == [Key |-> key, Value |-> <<>>, Default |-> <<>>, Min |-> <<>>,
             Max |-> <<>>, Others |-> NilSlice, Empty |-> FALSE,
             Contains |-> TRUE, Error |-> NoError]
  IN IF Len(opt) = 1
     THEN [r0 EXCEPT !.Default = opt[1], !.Value = opt[1]]
     ELSE IF Len(opt) > 1
     THEN [r0 EXCEPT !.Default = opt[1], !.Value = opt[1],
                     !.Others = Slice(Tail(opt))]
     ELSE r0

\* Result[string] as ParseString holds it after the options are read.
StringOptions(key, opt) ==
  LET r0 == [Key |-> key, Value |-> <<>>, Default |-> <<>>, Min |-> <<>>,
             Max |-> <<>>, Others |-> NilSlice, Empty |-> FALSE,
             Contains |-> TRUE, Error |-> NoError]
  IN IF Len(opt) = 1
     THEN [r0 EXCEPT !.Default = opt[1], !.Value = opt[1]]
     ELSE IF Len(opt) > 1
     THEN [r0 EXCEPT !.Default = opt[1], !.Value = opt[1],
                     !.Others = Slice(opt)]
     ELSE r0

\* StringValidate that stores the value in lower case.
StringValidateLower(result, value, opt) ==
  IF Len(opt) < 2
  THEN [result EXCEPT !.Value = ToLower(value)]
  ELSE IF ~result.Others.nil /\ In(value, result.Others.elems)
  THEN [result EXCEPT !.Value = ToLower(value)]
  ELSE [result EXCEPT !.Error = ErrRange(result.Key)]

\* The allow-list check of ParseString on the raw value.
StringValidate(result, value, opt) ==
  IF Len(opt) < 2
  THEN [result EXCEPT !.Value = value]
  ELSE IF ~result.Others.nil /\ In(value, result.Others.elems)
  THEN [result EXCEPT !.Value = value]
  ELSE [result EXCEPT !.Error = ErrRange(result.Key)]

\* ParseString without the test for an empty first value.
ParseStringNoEmptyTest(raw, key, opt) ==
  LET q == Query(raw)
      ok == key \in DOMAIN q
      result == StringOptions(key, opt)
  IN IF ~ok
     THEN [result EXCEPT !.Empty = TRUE, !.Contains = FALSE]
     ELSE StringValidate(result, q[key][1], opt)

ParseString(raw, key, opt) ==
  LET q == Query(raw)
      ok == key \in DOMAIN q
      result == StringOptions(key, opt)
  IN IF ~ok
     THEN [result EXCEPT !.Empty = TRUE, !.Contains = FALSE]
     ELSE IF q[key][1] = <<>>
     THEN [result EXCEPT !.Empty = TRUE, !.Contains = TRUE]
     ELSE StringValidate(result, q[key][1], opt)

GetString(raw, key, opt) ==
  LET data == ParseString(raw, key, opt)
  IN <<data.Value, data.Contains /\ ~data.Empty /\ data.Error = NoError>>

PullString(raw, key, opt) ==
  LET data == ParseString(raw, key, opt)
  IN IF ~data.Contains THEN NilPtr ELSE Ptr(data.Value)

\* StringSliceStrings that never splits the single value on commas.
StringSliceStringsNoSplit(data) == data

\* The elements ParseStringSlice returns: every occurrence of the key when
\* it is repeated, else the comma-separated pieces of the one value.
StringSliceStrings(data) ==
  IF Len(data) > 1 THEN data ELSE Split(data[1], ",")

\* ParseStringSlice that reports an empty element as an invalid value.
ParseStringSliceRejectEmpty(raw, key, opt) ==
  LET q == Query(raw)
      ok == key \in DOMAIN q
      r0 == [Key |-> key, Value |-> Slice(<<>>), Default |-> Slice(<<>>),
             Min |-> NilSlice, Max |-> NilSlice, Others |-> NilSlice,
             Empty |-> FALSE, Contains |-> TRUE, Error |-> NoError]
      result == IF Len(opt) > 0
                THEN [r0 EXCEPT !.Default = opt[1], !.Value = opt[1]]
                ELSE r0
  IN IF ~ok
     THEN [result EXCEPT !.Empty = TRUE, !.Contains = FALSE]
     ELSE IF q[key][1] = <<>>
     THEN [result EXCEPT !.Empty = TRUE, !.Contains = TRUE]
     ELSE LET strs == StringSliceStrings(q[key])
          IN IF \E i \in 1..Len(strs) : strs[i] = <<>>
             THEN [result EXCEPT !.Error = ErrInvalid(key),
                                 !.Value = Slice(<<>>)]
             ELSE [result EXCEPT !.Value = Slice(strs)]

ParseStringSlice(raw, key, opt) ==
  LET q == Query(raw)
      ok == key \in DOMAIN q
      r0 == [Key |-> key, Value |-> Slice(<<>>), Default |-> Slice(<<>>),
             Min |-> NilSlice, Max |-> NilSlice, Others |-> NilSlice,
             Empty |-> FALSE, Contains |-> TRUE, Error |-> NoError]
      result == IF Len(opt) > 0
                THEN [r0 EXCEPT !.Default = opt[1], !.Value = opt[1]]
                ELSE r0
  IN IF ~ok
     THEN [result EXCEPT !.Empty = TRUE, !.Contains = FALSE]
     ELSE IF q[key][1] = <<>>
     THEN [result EXCEPT !.Empty = TRUE, !.Contains = TRUE]
     ELSE [result EXCEPT !.Value = Slice(StringSliceStrings(q[key]))]

GetStringSlice(raw, key, opt) ==
  LET data == ParseStringSlice(raw, key, opt)
  IN <<data.Value, data.Contains /\ ~data.Empty /\ data.Error = NoError>>

PullStringSlice(raw, key, opt) ==
  LET data == ParseStringSlice(raw, key, opt)
  IN IF ~data.Contains THEN NilSlice ELSE data.Value

-----------------------------------------------------------------------------
\* bool.go

\* The boolean converter: case-insensitively, 1/true/yes/on are true and
\* 0/false/no/off are false; anything else is an error with the value false.
parseBoolValue(s) ==
  LET raw == ToLower(s)
  IN IF raw \in {<<"1">>, <<"t", "r", "u", "e">>, <<"y", "e", "s">>,
                 <<"o", "n">>}
     THEN [ok |-> TRUE, val |-> TRUE]
     ELSE IF raw \in {<<"0">>, <<"f", "a", "l", "s", "e">>, <<"n", "o">>,
                      <<"o", "f", "f">>}
     THEN [ok |-> TRUE, val |-> FALSE]
     ELSE [ok |-> FALSE, val |-> FALSE]

\* BoolOptions that takes the last option as the default.
BoolOptionsLastDefault(key, opt) ==
  LET r0 == [Key |-> key, Value |-> FALSE, Default |-> FALSE,
             Min |-> FALSE, Max |-> FALSE, Others |-> NilSlice,
             Empty |-> FALSE, Contains |-> TRUE, Error |-> NoError]
  IN IF Len(opt) >= 1
     THEN [r0 EXCEPT !.Default = opt[Len(opt)], !.Value = opt[Len(opt)]]
     ELSE r0

\* Result[bool] as ParseBool holds it after the options are read.
BoolOptions(key, opt) ==
  LET r0 == [Key |-> key, Value |-> FALSE, Default |-> FALSE, Min |-> FALSE,
             Max |-> FALSE, Others |-> NilSlice, Empty |-> FALSE,
             Contains |-> TRUE, Error |-> NoError]
  IN IF Len(opt) >= 1
     THEN [r0 EXCEPT !.Default = opt[1], !.Value = opt[1]]
     ELSE r0

\* BoolConvert taking the converter's value without looking at its error.
BoolConvertIgnoreError(result, str) ==
  LET conv == parseBoolValue(ToLower(str))
  IN [result EXCEPT !.Value = conv.val]

\* The conversion step of ParseBool on the first raw value.
BoolConvert(result, str) ==
  LET conv == parseBoolValue(ToLower(str))
  IN IF ~conv.ok
     THEN [result EXCEPT !.Error = ErrInvalid(result.Key)]
     ELSE [result EXCEPT !.Value = conv.val]

\* ParseBool that accepts only the lower-case spellings: a first value with
\* an upper-case letter is reported as invalid.
ParseBoolCaseSensitive(raw, key, opt) ==
  LET q == Query(raw)
      ok == key \in DOMAIN q
      result == BoolOptions(key, opt)
  IN IF ~ok
     THEN [result EXCEPT !.Empty = TRUE, !.Contains = FALSE]
     ELSE IF q[key][1] = <<>>
     THEN [result EXCEPT !.Empty = TRUE, !.Contains = TRUE]
     ELSE IF q[key][1] # ToLower(q[key][1])
     THEN [result EXCEPT !.Error = ErrInvalid(key)]
     ELSE BoolConvert(result, q[key][1])

ParseBool(raw, key, opt) ==
  LET q == Query(raw)
      ok == key \in DOMAIN q
      result == BoolOptions(key, opt)
  IN IF ~ok
     THEN [result EXCEPT !.Empty = TRUE, !.Contains = FALSE]
     ELSE IF q[key][1] = <<>>
     THEN [result EXCEPT !.Empty = TRUE, !.Contains = TRUE]
     ELSE BoolConvert(result, q[key][1])

GetBool(raw, key, opt) ==
  LET data == ParseBool(raw, key, opt)
  IN <<data.Value, data.Contains /\ ~data.Empty /\ data.Error = NoError>>

PullBool(raw, key, opt) ==
  LET data == ParseBool(raw, key, opt)
  IN IF ~data.Contains THEN NilPtr ELSE Ptr(data.Value)

RECURSIVE BoolElements(_, _)
\* The conversion loop of ParseBoolSlice over the raw elements strs: the
\* converted values so far, or the failure that stops the loop.
BoolElements(strs, acc) ==
  IF Len(strs) = 0 THEN [ok |-> TRUE, vals |-> acc]
  ELSE LET conv == parseBoolValue(Head(strs))
       IN IF ~conv.ok THEN [ok |-> FALSE, vals |-> <<>>]
          ELSE BoolElements(Tail(strs), Append(acc, conv.val))

\* The raw elements ParseBoolSlice converts: every occurrence of the key
\* when it is repeated, else the comma-separated pieces of the one value.
BoolSliceStrings(data) ==
  IF Len(data) > 1 THEN data ELSE Split(data[1], ",")

\* ParseBoolSlice that starts from the zero Result: without options the
\* default and the value are nil slices.
ParseBoolSliceNilInitial(raw, key, opt) ==
  LET q == Query(raw)
      ok == key \in DOMAIN q
      r0 == [Key |-> key, Value |-> NilSlice, Default |-> NilSlice,
             Min |-> NilSlice, Max |-> NilSlice, Others |-> NilSlice,
             Empty |-> FALSE, Contains |-> TRUE, Error |-> NoError]
      result == IF Len(opt) >= 1
                THEN [r0 EXCEPT !.Default = opt[1], !.Value = opt[1]]
                ELSE r0
  IN IF ~ok
     THEN [result EXCEPT !.Empty = TRUE, !.Contains = FALSE]
     ELSE IF q[key][1] = <<>>
     THEN [result EXCEPT !.Empty = TRUE, !.Contains = TRUE]
     ELSE LET conv == BoolElements(BoolSliceStrings(q[key]), <<>>)
          IN IF ~conv.ok
             THEN [result EXCEPT !.Error = ErrInvalid(key),
                                 !.Value = Slice(<<>>)]
             ELSE [result EXCEPT !.Value = Slice(conv.vals)]

ParseBoolSlice(raw, key, opt) ==
  LET q == Query(raw)
      ok == key \in DOMAIN q
      r0 == [Key |-> key, Value |-> Slice(<<>>), Default |-> Slice(<<>>),
             Min |-> NilSlice, Max |-> NilSlice, Others |-> NilSlice,
             Empty |-> FALSE, Contains |-> TRUE, Error |-> NoError]
      result == IF Len(opt) >= 1
                THEN [r0 EXCEPT !.Default = opt[1], !.Value = opt[1]]
                ELSE r0
  IN IF ~ok
     THEN [result EXCEPT !.Empty = TRUE, !.Contains = FALSE]
     ELSE IF q[key][1] = <<>>
     THEN [result EXCEPT !.Empty = TRUE, !.Contains = TRUE]
     ELSE LET conv == BoolElements(BoolSliceStrings(q[key]), <<>>)
          IN IF ~conv.ok
             THEN [result EXCEPT !.Error = ErrInvalid(key),
                                 !.Value = Slice(<<>>)]
             ELSE [result EXCEPT !.Value = Slice(conv.vals)]

GetBoolSlice(raw, key, opt) ==
  LET data == ParseBoolSlice(raw, key, opt)
  IN <<data.Value, data.Contains /\ ~data.Empty /\ data.Error = NoError>>

PullBoolSlice(raw, key, opt) ==
  LET data == ParseBoolSlice(raw, key, opt)
  IN IF ~data.Contains THEN NilSlice ELSE data.Value

-----------------------------------------------------------------------------
\* qp.go

\* Contains that asks for a non-empty first value.
ContainsWithValue(raw, key) ==
  key \in DOMAIN Query(raw) /\ Query(raw)[key][1] # <<>>

Contains(raw, key) == key \in DOMAIN Query(raw)

\* url.Values.Get: the first value of the key, "" when the key is absent.
ValuesGet(q, key) == IF key \in DOMAIN q THEN q[key][1] ELSE <<>>

\* Empty as its comment describes it: the key is present and its first
\* value is empty.
EmptyPresentOnly(raw, key) ==
  key \in DOMAIN Query(raw) /\ ValuesGet(Query(raw), key) = <<>>

Empty(raw, key) == ValuesGet(Query(raw), key) = <<>>

-----------------------------------------------------------------------------
\* The inputs of the model.

-----------------------------------------------------------------------------
\* The index and slice expressions a call evaluates, each with the length
\* n of the indexed slice and the least length need that keeps the
\* expression in bounds (x[i] needs i + 1, x[i:] needs i).  An expression
\* with need > n is a run-time panic.

\* The function of the package whose body fn runs: Get and Pull call Parse.
ParseFnOf(fn) ==
  CASE fn \in {"ParseInt", "GetInt", "PullInt"} -> "ParseInt"
    [] fn \in {"ParseFloat", "GetFloat", "PullFloat"} -> "ParseFloat"
    [] fn \in {"ParseString", "GetString", "PullString"} -> "ParseString"
    [] fn \in {"ParseBool", "GetBool", "PullBool"} -> "ParseBool"
    [] OTHER -> "ParseSlice"

\* OptReads reading opt[1] as soon as there is one option.
OptReadsEager(fn, opt) ==
  LET n == Len(opt)
      at(e, need) == [at |-> e, n |-> n, need |-> need]
  IN CASE ParseFnOf(fn) \in {"ParseInt", "ParseFloat"} ->
            IF n >= 1
            THEN {at("opt[0]", 1), at("opt[1]", 2)}
                   \cup (IF n > 2 THEN {at("opt[2:]", 2)} ELSE {})
            ELSE {}
       [] OTHER -> IF n > 0 THEN {at("opt[0]", 1)} ELSE {}

\* The reads of the options, behind the tests of len(opt) of the code.
OptReads(fn, opt) ==
  LET n == Len(opt)
      at(e, need) == [at |-> e, n |-> n, need |-> need]
  IN CASE ParseFnOf(fn) \in {"ParseInt", "ParseFloat"} ->
            IF n = 1 THEN {at("opt[0]", 1)}
            ELSE IF n > 1
            THEN {at("opt[0]", 1), at("opt[1]", 2)}
                   \cup (IF n > 2 THEN {at("opt[2:]", 2)} ELSE {})
            ELSE {}
       [] OTHER -> IF n > 0 THEN {at("opt[0]", 1)} ELSE {}

\* The read of data[0], behind the test of ok.
DataReads(raw, key) ==
  LET q == Query(raw)
  IN IF key \in DOMAIN q
     THEN {[at |-> "data[0]", n |-> Len(q[key]), need |-> 1]}
     ELSE {}

IndexReads(fn, raw, key, opt) == OptReads(fn, opt) \cup DataReads(raw, key)

\* The key the caller asks for; the query may also hold the key j.
Keys == {<<"k">>}

\* Raw values of key k: empty, integers, a non-integer number, boolean
\* spellings in both cases (words, for the numeric types), a
\* comma-separated list, and a comma-separated list whose second element
\* is empty.
RawVals ==
  {<<>>, <<"1">>, <<"5", "5">>, <<"O", "n">>, <<"n", "o">>,
   <<"1", ".", "5">>, <<"1", ",", "5", "5">>, <<"1", ",">>}

\* The segments a raw query is made of: k=v, a bare k, and j=1 for the
\* other key.
Segments ==
  {<<"k", "=">> \o v : v \in RawVals} \cup {<<"k">>, <<"j", "=", "1">>}

RECURSIVE Join(_, _)
\* strings.Join for a one-character separator.
Join(strs, sep) ==
  IF Len(strs) = 0 THEN <<>>
  ELSE IF Len(strs) = 1 THEN strs[1]
  ELSE strs[1] \o <<sep>> \o Join(Tail(strs), sep)

SeqsUpTo(S, n) == UNION {[1..m -> S] : m \in 0..n}

Queries == {Join(segs, "&") : segs \in SeqsUpTo(Segments, MaxParams)}

IntVals == {18, 55}

\* 1.5 and 18, in tenths.
FloatVals == {15, 180}

StringVals == {<<"x">>, <<"O", "n">>}

IntOpts == SeqsUpTo(IntVals, MaxOpts)

FloatOpts == SeqsUpTo(FloatVals, MaxOpts)

StringOpts == SeqsUpTo(StringVals, MaxOpts)

BoolOpts == SeqsUpTo(BOOLEAN, MaxOpts)

IntGetOpts == SeqsUpTo(IntVals, MaxGetOpts)

FloatGetOpts == SeqsUpTo(FloatVals, MaxGetOpts)

StringGetOpts == SeqsUpTo(StringVals, MaxGetOpts)

BoolGetOpts == SeqsUpTo(BOOLEAN, MaxGetOpts)

\* The option lists of a list parser: none, or one default sequence, which
\* may be nil, empty or not.
SliceOpts(d) == {<<>>, <<NilSlice>>, <<Slice(<<>>)>>, <<Slice(d)>>}

IntSliceOpts == SliceOpts(<<18, 55>>)

FloatSliceOpts == SliceOpts(<<15, 180>>)

StringSliceOpts == SliceOpts(<<<<"x">>, <<"O", "n">>>>)

BoolSliceOpts == SliceOpts(<<TRUE, FALSE>>)

\* The inputs of the direct calls of the boolean converter.
BoolInputs ==
  RawVals \cup {<<"2">>, <<"0">>, <<"T", "r", "u", "e">>,
                <<"F", "A", "L", "S", "E">>, <<"y", "e", "s">>,
                <<"o", "f", "f">>, <<"Y", "E", "S">>}

-----------------------------------------------------------------------------
\* The state machine: a caller holds a URL and calls one function of the
\* package at a time.

Idle == <<"idle", [key |-> <<>>, opt |-> <<>>, ret |-> <<>>]>>

\* A goroutine that is not inside a call.
NotCalling == <<"idle", "idle", [key |-> <<>>, opt |-> <<>>, raw |-> <<>>,
                                 ret |-> <<>>]>>

\* The number of goroutines that share the URL.
MaxGoroutines == 2

Goroutines == 1..MaxGoroutines

Init ==
  /\ u \in Queries
  /\ inv = Idle
  /\ callers = [t \in Goroutines |-> NotCalling]

Do(fn, key, opt, r) ==
  /\ inv[1] = "idle"
  /\ inv' = <<fn, [key |-> key, opt |-> opt, ret |-> r]>>
  /\ UNCHANGED <<u, callers>>

CallParseInt ==
  \E key \in Keys, opt \in IntOpts :
    Do("ParseInt", key, opt, ParseInt(u, key, opt))

CallGetInt ==
  \E key \in Keys, opt \in IntGetOpts :
    Do("GetInt", key, opt, GetInt(u, key, opt))

CallPullInt ==
  \E key \in Keys, opt \in IntGetOpts :
    Do("PullInt", key, opt, PullInt(u, key, opt))

CallParseIntSlice ==
  \E key \in Keys, opt \in IntSliceOpts :
    Do("ParseIntSlice", key, opt, ParseIntSlice(u, key, opt))

CallGetIntSlice ==
  \E key \in Keys, opt \in IntSliceOpts :
    Do("GetIntSlice", key, opt, GetIntSlice(u, key, opt))

CallPullIntSlice ==
  \E key \in Keys, opt \in IntSliceOpts :
    Do("PullIntSlice", key, opt, PullIntSlice(u, key, opt))

CallParseFloat ==
  \E key \in Keys, opt \in FloatOpts :
    Do("ParseFloat", key, opt, ParseFloat(u, key, opt))

CallGetFloat ==
  \E key \in Keys, opt \in FloatGetOpts :
    Do("GetFloat", key, opt, GetFloat(u, key, opt))

CallPullFloat ==
  \E key \in Keys, opt \in FloatGetOpts :
    Do("PullFloat", key, opt, PullFloat(u, key, opt))

CallParseFloatSlice ==
  \E key \in Keys, opt \in FloatSliceOpts :
    Do("ParseFloatSlice", key, opt, ParseFloatSlice(u, key, opt))

CallGetFloatSlice ==
  \E key \in Keys, opt \in FloatSliceOpts :
    Do("GetFloatSlice", key, opt, GetFloatSlice(u, key, opt))

CallPullFloatSlice ==
  \E key \in Keys, opt \in FloatSliceOpts :
    Do("PullFloatSlice", key, opt, PullFloatSlice(u, key, opt))

CallParseString ==
  \E key \in Keys, opt \in StringOpts :
    Do("ParseString", key, opt, ParseString(u, key, opt))

CallGetString ==
  \E key \in Keys, opt \in StringGetOpts :
    Do("GetString", key, opt, GetString(u, key, opt))

CallPullString ==
  \E key \in Keys, opt \in StringGetOpts :
    Do("PullString", key, opt, PullString(u, key, opt))

CallParseStringSlice ==
  \E key \in Keys, opt \in StringSliceOpts :
    Do("ParseStringSlice", key, opt, ParseStringSlice(u, key, opt))

CallGetStringSlice ==
  \E key \in Keys, opt \in StringSliceOpts :
    Do("GetStringSlice", key, opt, GetStringSlice(u, key, opt))

CallPullStringSlice ==
  \E key \in Keys, opt \in StringSliceOpts :
    Do("PullStringSlice", key, opt, PullStringSlice(u, key, opt))

CallParseBool ==
  \E key \in Keys, opt \in BoolOpts :
    Do("ParseBool", key, opt, ParseBool(u, key, opt))

CallGetBool ==
  \E key \in Keys, opt \in BoolGetOpts :
    Do("GetBool", key, opt, GetBool(u, key, opt))

CallPullBool ==
  \E key \in Keys, opt \in BoolGetOpts :
    Do("PullBool", key, opt, PullBool(u, key, opt))

CallParseBoolSlice ==
  \E key \in Keys, opt \in BoolSliceOpts :
    Do("ParseBoolSlice", key, opt, ParseBoolSlice(u, key, opt))

CallGetBoolSlice ==
  \E key \in Keys, opt \in BoolSliceOpts :
    Do("GetBoolSlice", key, opt, GetBoolSlice(u, key, opt))

CallPullBoolSlice ==
  \E key \in Keys, opt \in BoolSliceOpts :
    Do("PullBoolSlice", key, opt, PullBoolSlice(u, key, opt))

CallContains ==
  \E key \in Keys : Do("Contains", key, <<>>, Contains(u, key))

CallEmpty ==
  \E key \in Keys : Do("Empty", key, <<>>, Empty(u, key))

\* The converter called on a string directly; key records the string.
CallParseBoolValue ==
  \E s \in BoolInputs : Do("parseBoolValue", s, <<>>, parseBoolValue(s))

\* The slices of a list result that share their backing array.  Default is
\* the slice the caller passed (result.Default = opt[0]), and Value is that
\* same slice (result.Value = result.Default) until the parser replaces it,
\* which it does only for a key that is present with a non-empty first
\* value.
DefaultSharesOption(opt) == Len(opt) > 0

ValueSharesDefault(raw, key) ==
  LET q == Query(raw)
  IN key \notin DOMAIN q \/ q[key][1] = <<>>

\* The name under which the model keeps a list result the caller wrote to,
\* and the element the caller writes.
Overwritten(fn) ==
  CASE fn = "ParseIntSlice" -> "OverwriteIntSlice"
    [] fn = "ParseFloatSlice" -> "OverwriteFloatSlice"
    [] fn = "ParseStringSlice" -> "OverwriteStringSlice"
    [] fn = "ParseBoolSlice" -> "OverwriteBoolSlice"

NewElement(fn) ==
  CASE fn = "ParseIntSlice" -> 7
    [] fn = "ParseFloatSlice" -> 7
    [] fn = "ParseStringSlice" -> <<"w">>
    [] fn = "ParseBoolSlice" -> ~inv[2].ret.Value.elems[1]

\* The caller assigns to the first element of the Value of the list result
\* it holds (result.Value[0] = w): the assignment goes to the backing
\* array, so every slice that shares it shows the new element.
OverwriteValue ==
  /\ inv[1] \in {"ParseIntSlice", "ParseFloatSlice", "ParseStringSlice",
                 "ParseBoolSlice"}
  /\ Len(inv[2].ret.Value.elems) > 0
  /\ LET c == inv[2]
         value == [c.ret.Value EXCEPT !.elems[1] = NewElement(inv[1])]
         shared == ValueSharesDefault(u, c.key)
     IN inv' = <<Overwritten(inv[1]),
                 [key |-> c.key,
                  opt |-> IF shared /\ DefaultSharesOption(c.opt)
                          THEN <<value>> ELSE c.opt,
                  ret |-> [c.ret EXCEPT
                             !.Value = value,
                             !.Default = IF shared THEN value ELSE @]]>>
  /\ UNCHANGED <<u, callers>>

\* The caller takes the result and is ready for its next call.
Return ==
  /\ inv[1] # "idle"
  /\ inv' = Idle
  /\ UNCHANGED <<u, callers>>

Next ==
  \/ CallParseInt \/ CallGetInt \/ CallPullInt
  \/ CallParseIntSlice \/ CallGetIntSlice \/ CallPullIntSlice
  \/ CallParseFloat \/ CallGetFloat \/ CallPullFloat
  \/ CallParseFloatSlice \/ CallGetFloatSlice \/ CallPullFloatSlice
  \/ CallParseString \/ CallGetString \/ CallPullString
  \/ CallParseStringSlice \/ CallGetStringSlice \/ CallPullStringSlice
  \/ CallParseBool \/ CallGetBool \/ CallPullBool
  \/ CallParseBoolSlice \/ CallGetBoolSlice \/ CallPullBoolSlice
  \/ CallContains \/ CallEmpty \/ CallParseBoolValue
  \/ OverwriteValue
  \/ Return

Spec == Init /\ [][Next]_vars

-----------------------------------------------------------------------------
\* Vocabulary of the properties.

ScalarParseFns == {"ParseInt", "ParseFloat", "ParseString", "ParseBool"}

SliceParseFns ==
  {"ParseIntSlice", "ParseFloatSlice", "ParseStringSlice", "ParseBoolSlice"}

ParseFns == ScalarParseFns \cup SliceParseFns

ScalarGetFns == {"GetInt", "GetFloat", "GetString", "GetBool"}

SliceGetFns ==
  {"GetIntSlice", "GetFloatSlice", "GetStringSlice", "GetBoolSlice"}

ScalarPullFns == {"PullInt", "PullFloat", "PullString", "PullBool"}

SlicePullFns ==
  {"PullIntSlice", "PullFloatSlice", "PullStringSlice", "PullBoolSlice"}

\* The functions that take a URL, a key and options.
PackageFns ==
  ParseFns \cup ScalarGetFns \cup SliceGetFns \cup ScalarPullFns
    \cup SlicePullFns

\* The result of the Parse function that the function fn wraps (or is).
ParseOf(fn, raw, key, opt) ==
  CASE fn \in {"ParseInt", "GetInt", "PullInt"} -> ParseInt(raw, key, opt)
    [] fn \in {"ParseFloat", "GetFloat", "PullFloat"} ->
         ParseFloat(raw, key, opt)
    [] fn \in {"ParseString", "GetString", "PullString"} ->
         ParseString(raw, key, opt)
    [] fn \in {"ParseBool", "GetBool", "PullBool"} -> ParseBool(raw, key, opt)
    [] fn \in {"ParseIntSlice", "GetIntSlice", "PullIntSlice"} ->
         ParseIntSlice(raw, key, opt)
    [] fn \in {"ParseFloatSlice", "GetFloatSlice", "PullFloatSlice"} ->
         ParseFloatSlice(raw, key, opt)
    [] fn \in {"ParseStringSlice", "GetStringSlice", "PullStringSlice"} ->
         ParseStringSlice(raw, key, opt)
    [] fn \in {"ParseBoolSlice", "GetBoolSlice", "PullBoolSlice"} ->
         ParseBoolSlice(raw, key, opt)

\* The zero value of the type a Parse function returns.
ZeroOf(fn) ==
  CASE fn \in {"ParseInt", "ParseFloat"} -> 0
    [] fn = "ParseString" -> <<>>
    [] fn = "ParseBool" -> FALSE
    [] fn \in SliceParseFns -> NilSlice

\* The key of the call occurs in the query; its values, in order.
Present == call.key \in DOMAIN Query(u)

Data == Query(u)[call.key]

Absent == ~Present

PresentEmpty == Present /\ Data[1] = <<>>

PresentValue == Present /\ Data[1] # <<>>

Valid(r) == r.Contains /\ ~r.Empty /\ r.Error = NoError

-----------------------------------------------------------------------------
\* Goroutines that share one URL.  Each call is two steps: the call
\* evaluates u.Query(), which parses the raw query of the shared URL into a
\* map of its own, and then computes and returns its result from that map.

\* What the function fn returns on the raw query raw.
Apply(fn, raw, key, opt) ==
  CASE fn = "ParseInt" -> ParseInt(raw, key, opt)
    [] fn = "GetInt" -> GetInt(raw, key, opt)
    [] fn = "PullInt" -> PullInt(raw, key, opt)
    [] fn = "ParseIntSlice" -> ParseIntSlice(raw, key, opt)
    [] fn = "GetIntSlice" -> GetIntSlice(raw, key, opt)
    [] fn = "PullIntSlice" -> PullIntSlice(raw, key, opt)
    [] fn = "ParseFloat" -> ParseFloat(raw, key, opt)
    [] fn = "GetFloat" -> GetFloat(raw, key, opt)
    [] fn = "PullFloat" -> PullFloat(raw, key, opt)
    [] fn = "ParseFloatSlice" -> ParseFloatSlice(raw, key, opt)
    [] fn = "GetFloatSlice" -> GetFloatSlice(raw, key, opt)
    [] fn = "PullFloatSlice" -> PullFloatSlice(raw, key, opt)
    [] fn = "ParseString" -> ParseString(raw, key, opt)
    [] fn = "GetString" -> GetString(raw, key, opt)
    [] fn = "PullString" -> PullString(raw, key, opt)
    [] fn = "ParseStringSlice" -> ParseStringSlice(raw, key, opt)
    [] fn = "GetStringSlice" -> GetStringSlice(raw, key, opt)
    [] fn = "PullStringSlice" -> PullStringSlice(raw, key, opt)
    [] fn = "ParseBool" -> ParseBool(raw, key, opt)
    [] fn = "GetBool" -> GetBool(raw, key, opt)
    [] fn = "PullBool" -> PullBool(raw, key, opt)
    [] fn = "ParseBoolSlice" -> ParseBoolSlice(raw, key, opt)
    [] fn = "GetBoolSlice" -> GetBoolSlice(raw, key, opt)
    [] fn = "PullBoolSlice" -> PullBoolSlice(raw, key, opt)

\* The option lists of the concurrent calls: one default.
SharedOptsOf(fn) ==
  CASE fn \in {"ParseInt", "GetInt", "PullInt"} -> {<<18>>}
    [] fn \in {"ParseFloat", "GetFloat", "PullFloat"} -> {<<15>>}
    [] fn \in {"ParseString", "GetString", "PullString"} -> {<<<<"x">>>>}
    [] fn \in {"ParseBool", "GetBool", "PullBool"} -> {<<TRUE>>}
    [] fn \in {"ParseIntSlice", "GetIntSlice", "PullIntSlice"} ->
         {<<Slice(<<18, 55>>)>>}
    [] fn \in {"ParseFloatSlice", "GetFloatSlice", "PullFloatSlice"} ->
         {<<Slice(<<15, 180>>)>>}
    [] fn \in {"ParseStringSlice", "GetStringSlice", "PullStringSlice"} ->
         {<<Slice(<<<<"x">>, <<"O", "n">>>>)>>}
    [] fn \in {"ParseBoolSlice", "GetBoolSlice", "PullBoolSlice"} ->
         {<<Slice(<<TRUE, FALSE>>)>>}

\* The URLs the goroutines share: the queries of at most four characters.
SharedQueries == {q \in Queries : Len(q) <= 4}

SharedInit ==
  /\ u \in SharedQueries
  /\ inv = Idle
  /\ callers = [t \in Goroutines |-> NotCalling]

\* A call that takes the parameters out of the URL as it reads them.
EnterConsuming(t) ==
  /\ callers[t][2] = "idle"
  /\ \E fn \in PackageFns, key \in Keys : \E opt \in SharedOptsOf(fn) :
       callers' = [callers EXCEPT ![t] =
         <<fn, "parsed", [key |-> key, opt |-> opt, raw |-> u,
                          ret |-> <<>>]>>]
  /\ u' = <<>>
  /\ UNCHANGED inv

\* Goroutine t calls a function, which evaluates u.Query(): the raw query
\* of the shared URL is read and parsed into a map that belongs to the
\* call.
Enter(t) ==
  /\ callers[t][2] = "idle"
  /\ \E fn \in PackageFns, key \in Keys : \E opt \in SharedOptsOf(fn) :
       callers' = [callers EXCEPT ![t] =
         <<fn, "parsed", [key |-> key, opt |-> opt, raw |-> u,
                          ret |-> <<>>]>>]
  /\ UNCHANGED <<u, inv>>

\* The call computes its result from its own map and returns it.
Compute(t) ==
  /\ callers[t][2] = "parsed"
  /\ LET fn == callers[t][1]
         c == callers[t][3]
     IN callers' = [callers EXCEPT ![t] =
          <<fn, "returned",
            [c EXCEPT !.ret = Apply(fn, c.raw, c.key, c.opt)]>>]
  /\ UNCHANGED <<u, inv>>

\* The goroutine takes the result and is ready for its next call.
Leave(t) ==
  /\ callers[t][2] = "returned"
  /\ callers' = [callers EXCEPT ![t] = NotCalling]
  /\ UNCHANGED <<u, inv>>

SharedNext == \E t \in Goroutines : Enter(t) \/ Compute(t) \/ Leave(t)

SharedSpec == SharedInit /\ [][SharedNext]_vars

-----------------------------------------------------------------------------

\* C1: every Get function returns the Value of the corresponding Parse
\* result on the same inputs, together with the flag
\* Contains /\ ~Empty /\ Error = nil of that result.
GetMatchesParse ==
  call.fn \in ScalarGetFns \cup SliceGetFns =>
    LET r == ParseOf(call.fn, u, call.key, call.opt)
    IN ret = <<r.Value, Valid(r)>>

\* GetInt on a present, convertible value inside the range: flag true.
GetIntValidReached ==
  /\ call.fn = "GetInt"
  /\ call.opt = <<18, 55>>
  /\ PresentValue
  /\ ret = <<55, TRUE>>

InitialOf(fn) == IF fn \in SliceParseFns THEN Slice(<<>>) ELSE ZeroOf(fn)

PresentEmptyGivesDefault ==
  (call.fn \in ParseFns /\ PresentEmpty) =>
    /\ ret.Contains /\ ret.Empty /\ ret.Error = NoError
    /\ ret.Value = ret.Default
    /\ ret.Default = IF Len(call.opt) = 0 THEN InitialOf(call.fn)
                     ELSE call.opt[1]

\* ParseString with a default on the bare key "k".
BareKeyGivesDefaultReached ==
  /\ call.fn = "ParseString"
  /\ call.opt = <<<<"x">>>>
  /\ u = <<"k">>
  /\ ret.Empty /\ ret.Contains
  /\ ret.Value = <<"x">>

\* The first raw value of the key converted as ParseInt / ParseFloat do.
Converted ==
  IF call.fn = "ParseInt" THEN Atoi(Data[1]) ELSE ParseFloat64(Data[1])

\* C5: ParseInt and ParseFloat with two or more options accept a converted
\* value v (Value = v, Error = nil) if and only if Min <= v <= Max or v is
\* one of the options after the second; otherwise Error is set and Value is
\* the default.
RangeOrOthersAccepts ==
  (/\ call.fn \in {"ParseInt", "ParseFloat"}
   /\ Len(call.opt) >= 2
   /\ PresentValue
   /\ Converted.ok) =>
    LET v == Converted.val
        others == SubSeq(call.opt, 3, Len(call.opt))
    IN IF (ret.Min <= v /\ v <= ret.Max) \/ In(v, others)
       THEN ret.Value = v /\ ret.Error = NoError
       ELSE /\ ret.Error # NoError
            /\ ret.Value = ret.Default
            /\ ret.Default = call.opt[1]

\* Range [18,18] with others [55]: the value 55 is accepted.
OthersOutsideRangeReached ==
  /\ call.fn = "ParseInt"
  /\ call.opt = <<18, 18, 55>>
  /\ PresentValue
  /\ Data[1] = <<"5", "5">>
  /\ ret.Value = 55
  /\ ret.Error = NoError

\* C6: ParseInt and ParseFloat with options (a, b, ...) give Min = min(a, b),
\* Max = max(a, b) and Default = a, whether or not a > b.
MinMaxSortedDefaultFirst ==
  (call.fn \in {"ParseInt", "ParseFloat"} /\ Len(call.opt) >= 2) =>
    LET a == call.opt[1]
        b == call.opt[2]
    IN /\ ret.Min = IF a <= b THEN a ELSE b
       /\ ret.Max = IF a <= b THEN b ELSE a
       /\ ret.Default = a

\* ParseInt with the inverted range (55, 18).
InvertedRangeReached ==
  /\ call.fn = "ParseInt"
  /\ call.opt = <<55, 18>>
  /\ ret.Min = 18
  /\ ret.Max = 55
  /\ ret.Default = 55

\* C7: ParseString with more than one option accepts a present non-empty
\* first value v (Value = v, Error = nil) if and only if v is one of the
\* options, the default included; otherwise Error is set and
\* Value = Default = options[0].  With zero or one option every non-empty
\* value is accepted unchanged.
StringAllowList ==
  (call.fn = "ParseString" /\ PresentValue) =>
    LET v == Data[1]
    IN IF Len(call.opt) < 2 \/ In(v, call.opt)
       THEN ret.Value = v /\ ret.Error = NoError
       ELSE /\ ret.Error # NoError
            /\ ret.Value = ret.Default
            /\ ret.Default = call.opt[1]

\* The default itself arrives as the value and is accepted.
StringDefaultAcceptedReached ==
  /\ call.fn = "ParseString"
  /\ call.opt = <<<<"O", "n">>, <<"x">>>>
  /\ PresentValue
  /\ Data[1] = <<"O", "n">>
  /\ ret.Value = <<"O", "n">>
  /\ ret.Error = NoError

\* C8: for every Parse function, scalar and list alike, a present non-empty
\* value that fails conversion or validation (Error # nil) leaves
\* Value = Default, and Pull then returns a pointer to the default value.
ErrorFallsBackToDefault ==
  /\ (call.fn \in ParseFns /\ ret.Error # NoError) =>
       ret.Value = ret.Default
  /\ call.fn \in ScalarPullFns =>
       LET r == ParseOf(call.fn, u, call.key, call.opt)
       IN r.Error # NoError => ret = Ptr(r.Default)
  /\ call.fn \in SlicePullFns =>
       LET r == ParseOf(call.fn, u, call.key, call.opt)
       IN r.Error # NoError => ret = r.Default

TrueSpellings ==
  {<<"1">>, <<"t", "r", "u", "e">>, <<"y", "e", "s">>, <<"o", "n">>}

FalseSpellings ==
  {<<"0">>, <<"f", "a", "l", "s", "e">>, <<"n", "o">>, <<"o", "f", "f">>}

\* C9: boolean conversion accepts, case-insensitively, exactly 1/true/yes/on
\* (true) and 0/false/no/off (false); any other string, "2" and the empty
\* string included, is a conversion failure: the converter returns an error
\* with the value false, and ParseBool reports the error.
BoolSpellings ==
  /\ call.fn = "parseBoolValue" =>
       LET s == ToLower(call.key)
       IN ret = IF s \in TrueSpellings THEN [ok |-> TRUE, val |-> TRUE]
                ELSE IF s \in FalseSpellings
                THEN [ok |-> TRUE, val |-> FALSE]
                ELSE [ok |-> FALSE, val |-> FALSE]
  /\ (call.fn = "ParseBool" /\ PresentValue) =>
       LET s == ToLower(Data[1])
       IN IF s \in TrueSpellings THEN ret.Value /\ ret.Error = NoError
          ELSE IF s \in FalseSpellings
          THEN ~ret.Value /\ ret.Error = NoError
          ELSE ret.Error # NoError /\ ret.Value = ret.Default

\* ParseBool accepts the mixed-case spelling "On" as true.
MixedCaseTrueReached ==
  /\ call.fn = "ParseBool"
  /\ call.opt = <<FALSE>>
  /\ PresentValue
  /\ Data[1] = <<"O", "n">>
  /\ ret.Value
  /\ ret.Error = NoError

\* A string without a comma.
CommaFree(s) == \A i \in 1..Len(s) : s[i] # ","

\* The query "k=e1,e2,...,en" for the occurrences e1..en of the key in u.
CommaForm == call.key \o <<"=">> \o Join(Data, ",")

\* The key of the call is repeated in u and no occurrence holds a comma.
RepeatedForm ==
  /\ call.fn \in SliceParseFns
  /\ Present
  /\ Len(Data) >= 2
  /\ \A i \in 1..Len(Data) : CommaFree(Data[i])

\* C10 as stated: for every two or more comma-free elements and every list
\* type, the comma form and the repeated-key form give identical results.
DualSyntaxEquivalent ==
  RepeatedForm =>
    ret = ParseOf(call.fn, CommaForm, call.key, call.opt)

\* C10 amended: the two forms give identical results provided the first
\* element is not the empty string.
DualSyntaxEquivalentNonEmptyFirst ==
  (RepeatedForm /\ Data[1] # <<>>) =>
    ret = ParseOf(call.fn, CommaForm, call.key, call.opt)

\* "k=1&k=55" parsed as the list [1, 55].
RepeatedIntsReached ==
  /\ call.fn = "ParseIntSlice"
  /\ u = <<"k", "=", "1", "&", "k", "=", "5", "5">>
  /\ call.opt = <<>>
  /\ ret.Value = Slice(<<1, 55>>)
  /\ ret.Error = NoError

-----------------------------------------------------------------------------
\* The elements a list parser converts: every occurrence of the key when
\* it is repeated, else the comma-separated pieces of the one value.
Elements == IF Len(Data) > 1 THEN Data ELSE Split(Data[1], ",")

\* Some element of the list does not convert to the element type of fn.
BadElement(fn) ==
  \E i \in 1..Len(Elements) :
    CASE fn = "ParseIntSlice" -> ~Atoi(Elements[i]).ok
      [] fn = "ParseFloatSlice" -> ~ParseFloat64(Elements[i]).ok
      [] fn = "ParseBoolSlice" -> ~parseBoolValue(Elements[i]).ok

-----------------------------------------------------------------------------
NilDefault == Len(call.opt) > 0 /\ call.opt[1] = NilSlice

-----------------------------------------------------------------------------
\* C13: every Get function of a list type returns a non-nil slice,
\* whether the key is absent, empty, invalid or valid.
GetSliceNeverNil ==
  call.fn \in SliceGetFns => ~ret[1].nil

-----------------------------------------------------------------------------
\* C14: in the result of every Parse function Contains = false implies
\* Empty = true, and a non-nil Error implies Contains = true and
\* Empty = false: (Contains, Empty, Error set) is one of (F, T, F),
\* (T, T, F), (T, F, F), (T, F, T).
FlagsConsistent ==
  call.fn \in ParseFns =>
    /\ ~ret.Contains => ret.Empty
    /\ ret.Error # NoError => (ret.Contains /\ ~ret.Empty)
    /\ <<ret.Contains, ret.Empty, ret.Error # NoError>> \in
         {<<FALSE, TRUE, FALSE>>, <<TRUE, TRUE, FALSE>>,
          <<TRUE, FALSE, FALSE>>, <<TRUE, FALSE, TRUE>>}

\* ParseFloat of a value outside the range: the error case of the flags.
FloatRangeErrorReached ==
  /\ call.fn = "ParseFloat"
  /\ u = <<"k", "=", "5", "5">>
  /\ call.opt = <<15, 15, 180>>
  /\ ret.Error = ErrRange(<<"k">>)
  /\ ret.Contains
  /\ ~ret.Empty

-----------------------------------------------------------------------------
\* The option lists the model passes to a Parse function.
OptsOf(fn) ==
  CASE fn = "ParseInt" -> IntOpts
    [] fn = "ParseFloat" -> FloatOpts
    [] fn = "ParseString" -> StringOpts
    [] fn = "ParseBool" -> BoolOpts
    [] fn = "ParseIntSlice" -> IntSliceOpts
    [] fn = "ParseFloatSlice" -> FloatSliceOpts
    [] fn = "ParseStringSlice" -> StringSliceOpts
    [] fn = "ParseBoolSlice" -> BoolSliceOpts

ContainsMatchesParse ==
  /\ call.fn = "Contains" =>
        /\ ret <=> Present
        /\ \A fn \in ParseFns : \A opt \in OptsOf(fn) :
             ParseOf(fn, u, call.key, opt).Contains = ret
  /\ call.fn \in ParseFns => ret.Contains = Contains(u, call.key)

\* Contains is true for a key with an empty value.
ContainsEmptyValueReached ==
  /\ call.fn = "Contains"
  /\ u = <<"k", "=">>
  /\ ret = TRUE

-----------------------------------------------------------------------------
\* The first raw value of the key converts to the type of the scalar Parse
\* function fn; the value it converts to.
Convertible(fn) ==
  CASE fn = "ParseInt" -> Atoi(Data[1]).ok
    [] fn = "ParseFloat" -> ParseFloat64(Data[1]).ok
    [] fn = "ParseString" -> TRUE

ConvertedValue(fn) ==
  CASE fn = "ParseInt" -> Atoi(Data[1]).val
    [] fn = "ParseFloat" -> ParseFloat64(Data[1]).val
    [] fn = "ParseString" -> Data[1]

\* C17: ParseInt, ParseFloat and ParseString with no option have the zero
\* value as Default, with one option have that option as Default; in both
\* cases Min and Max are zero, Others is nil, and every non-empty first
\* value that converts is accepted (Value is the converted value, Error
\* is nil), also when it lies outside [Min, Max] = [0, 0].
FewOptionsNoConstraint ==
  (call.fn \in {"ParseInt", "ParseFloat", "ParseString"}
     /\ Len(call.opt) <= 1) =>
    /\ ret.Default =
         (IF Len(call.opt) = 0 THEN ZeroOf(call.fn) ELSE call.opt[1])
    /\ ret.Min = ZeroOf(call.fn)
    /\ ret.Max = ZeroOf(call.fn)
    /\ ret.Others = NilSlice
    /\ (PresentValue /\ Convertible(call.fn)) =>
         (ret.Error = NoError /\ ret.Value = ConvertedValue(call.fn))

\* ParseFloat with the single option 18 accepted 1.5, which is outside
\* [0, 0].
OneOptionOutsideZeroRangeReached ==
  /\ call.fn = "ParseFloat"
  /\ u = <<"k", "=", "1", ".", "5">>
  /\ call.opt = <<180>>
  /\ ret.Value = 15
  /\ ret.Default = 180
  /\ ret.Max = 0
  /\ ret.Error = NoError

-----------------------------------------------------------------------------
\* Literal representations, written independently of the converters.

DigitChar(d) ==
  CASE d = 0 -> "0" [] d = 1 -> "1" [] d = 2 -> "2" [] d = 3 -> "3"
    [] d = 4 -> "4" [] d = 5 -> "5" [] d = 6 -> "6" [] d = 7 -> "7"
    [] d = 8 -> "8" [] d = 9 -> "9"

RECURSIVE Itoa(_)
\* The decimal literal of a natural number, as strconv.Itoa writes it.
Itoa(n) ==
  IF n < 10 THEN <<DigitChar(n)>>
  ELSE Append(Itoa(n \div 10), DigitChar(n % 10))

\* The integers and the floats (in tenths) whose literals are looked for:
\* 0 to 60, and the floats 0.0, 0.5, 1, 1.5, 1.8, 5.5, 15, 18 and 55.
LiteralInts == 0..60

LiteralFloats == {0, 5, 10, 15, 18, 55, 150, 180, 550}

\* The literals of the value v of the type of the scalar Parse function
\* fn: the decimal literal of an integer; the decimal literal of a float
\* with one fractional digit, or without a fraction when it is whole; the
\* string itself; the spellings of a boolean in any case.
LiteralsOf(fn, v) ==
  CASE fn = "ParseInt" -> {Itoa(v)}
    [] fn = "ParseFloat" ->
         {Itoa(v \div 10) \o <<".", DigitChar(v % 10)>>}
           \cup (IF v % 10 = 0 THEN {Itoa(v \div 10)} ELSE {})
    [] fn = "ParseString" -> {v}
    [] fn = "ParseBool" ->
         {s \in BoolInputs :
            ToLower(s) \in (IF v THEN TrueSpellings ELSE FalseSpellings)}

ValuesOfType(fn) ==
  CASE fn = "ParseInt" -> LiteralInts
    [] fn = "ParseFloat" -> LiteralFloats
    [] fn = "ParseString" -> RawVals \ {<<>>}
    [] fn = "ParseBool" -> BOOLEAN

-----------------------------------------------------------------------------
ResultFields ==
  {"Key", "Value", "Default", "Min", "Max", "Others", "Empty", "Contains",
   "Error"}

\* C19: every Parse, Get and Pull call returns: no index or slice
\* expression it evaluates is out of bounds (the first raw value of a
\* present key exists), and absence, emptiness, conversion failure and
\* constraint violation are fields of the returned Result: an absent key
\* clears Contains, an empty first value sets Empty, and Error is nil, an
\* invalid-value error or an out-of-range error for the key.
NoPanic ==
  call.fn \in PackageFns =>
    /\ \A r \in IndexReads(call.fn, u, call.key, call.opt) : r.need <= r.n
    /\ call.fn \in ParseFns =>
         /\ DOMAIN ret = ResultFields
         /\ ret.Contains = Present
         /\ ret.Empty = (Absent \/ PresentEmpty)
         /\ ret.Error \in
              {NoError, ErrInvalid(call.key), ErrRange(call.key)}
    /\ call.fn \in ScalarGetFns \cup SliceGetFns =>
         (Len(ret) = 2 /\ ret[2] \in BOOLEAN)
    /\ call.fn \in ScalarPullFns => Len(ret) <= 1

\* ParseInt with a range and an allowed value on a repeated key evaluated
\* opt[0], opt[1], opt[2:] and data[0].
AllIndexReadsReached ==
  /\ call.fn = "ParseInt"
  /\ Len(call.opt) = 3
  /\ u = <<"k", "=", "n", "o", "&", "k", "=", "1">>
  /\ Cardinality(IndexReads(call.fn, u, call.key, call.opt)) = 4
  /\ ret.Error = ErrInvalid(<<"k">>)

-----------------------------------------------------------------------------
-----------------------------------------------------------------------------
\* C21: the Others of ParseInt and ParseFloat are the options after the
\* second, in order, and nil when there are at most two options; the
\* Others of ParseString are all the options, in order and with the
\* default, when there is more than one option, and nil otherwise.
OthersAsymmetric ==
  /\ call.fn \in {"ParseInt", "ParseFloat"} =>
       ret.Others = (IF Len(call.opt) > 2
                     THEN Slice(SubSeq(call.opt, 3, Len(call.opt)))
                     ELSE NilSlice)
  /\ call.fn = "ParseString" =>
       ret.Others = (IF Len(call.opt) > 1 THEN Slice(call.opt)
                     ELSE NilSlice)

\* ParseFloat with a range and one more value holds that value alone.
FloatOthersTailReached ==
  /\ call.fn = "ParseFloat"
  /\ call.opt = <<15, 180, 15>>
  /\ ret.Others = Slice(<<15>>)
  /\ ret.Max = 180

-----------------------------------------------------------------------------
\* C22: a result shares no mutable state with the caller: when the caller
\* changes an element of the Value of a list result, the option values it
\* passed to the call stay as they were.
OverwriteLeavesOptions ==
  [][inv'[1] \in {"OverwriteIntSlice", "OverwriteFloatSlice",
                  "OverwriteStringSlice", "OverwriteBoolSlice"}
       => inv'[2].opt = inv[2].opt]_vars

-----------------------------------------------------------------------------
\* C23: ParseBool, GetBool and PullBool called with the options
\* (d, x1, ..., xn) return what they return with the single option (d).
BoolExtraOptionsIgnored ==
  (call.fn \in {"ParseBool", "GetBool", "PullBool"} /\ Len(call.opt) >= 1)
    => ret = Apply(call.fn, u, call.key, <<call.opt[1]>>)

\* ParseBool with the default true followed by two false options, on a
\* value that does not convert: the value is the default true.
BoolExtraOptionsReached ==
  /\ call.fn = "ParseBool"
  /\ call.opt = <<TRUE, FALSE, FALSE>>
  /\ u = <<"k", "=", "5", "5">>
  /\ ret.Value = TRUE
  /\ ret.Error = ErrInvalid(<<"k">>)

-----------------------------------------------------------------------------
\* The query that holds the first occurrence of the key and nothing else.
FirstOccurrenceOnly == call.key \o <<"=">> \o Data[1]

\* C24: the result of a scalar Parse function on a query that holds the
\* key is the result on the query that holds only the first occurrence of
\* the key; so two queries with the same first value of the key give the
\* same result, whatever the later occurrences are.
ScalarFirstOccurrence ==
  (call.fn \in ScalarParseFns /\ Present) =>
    ret = ParseOf(call.fn, FirstOccurrenceOnly, call.key, call.opt)

\* ParseInt accepted 1 although the second occurrence is not a number.
LaterOccurrenceIgnoredReached ==
  /\ call.fn = "ParseInt"
  /\ u = <<"k", "=", "1", "&", "k", "=", "n", "o">>
  /\ call.opt = <<>>
  /\ ret.Value = 1
  /\ ret.Error = NoError

-----------------------------------------------------------------------------
\* The key occurs more than once, its first value is not empty and some
\* occurrence holds a comma.
RepeatedWithComma ==
  /\ PresentValue
  /\ Len(Data) > 1
  /\ \E i \in 1..Len(Data) : ~CommaFree(Data[i])

-----------------------------------------------------------------------------
\* C26: a list parser decides emptiness on the first occurrence of the
\* key alone.  When the first value is empty, Empty is set, Error is nil,
\* Value is the default and the later occurrences play no part: the
\* result is the result on the query "k=".  An empty value in a later
\* occurrence, or an empty piece between or after commas, is an element:
\* it fails conversion in ParseIntSlice, ParseFloatSlice and
\* ParseBoolSlice.
ListEmptyByFirstOccurrence ==
  /\ (call.fn \in SliceParseFns /\ PresentEmpty) =>
       /\ ret.Empty
       /\ ret.Error = NoError
       /\ ret.Value = ret.Default
       /\ ret = ParseOf(call.fn, call.key \o <<"=">>, call.key, call.opt)
  /\ (call.fn \in {"ParseIntSlice", "ParseFloatSlice", "ParseBoolSlice"}
        /\ PresentValue
        /\ \E i \in 1..Len(Elements) : Elements[i] = <<>>) =>
       (~ret.Empty /\ ret.Error # NoError)

\* ParseFloatSlice returned the default for an empty first value followed
\* by a valid one.
EmptyFirstThenValueReached ==
  /\ call.fn = "ParseFloatSlice"
  /\ u = <<"k", "=", "&", "k", "=", "1">>
  /\ call.opt = <<Slice(<<15, 180>>)>>
  /\ ret.Empty
  /\ ret.Value = Slice(<<15, 180>>)

-----------------------------------------------------------------------------
\* The scalar conversion of the element e by the list parser fn.
ElementValue(fn, e) ==
  CASE fn = "ParseIntSlice" -> Atoi(e).val
    [] fn = "ParseFloatSlice" -> ParseFloat64(e).val
    [] fn = "ParseStringSlice" -> e
    [] fn = "ParseBoolSlice" -> parseBoolValue(e).val

\* C27: a list parser that succeeds (Contains, not Empty, Error = nil)
\* returns a non-nil Value with one element for each occurrence of a
\* repeated key, or for each comma-separated piece of a single
\* occurrence; the i-th element is the conversion of the i-th input
\* element, and nothing of the default is in it.
ListSuccessElementwise ==
  (call.fn \in SliceParseFns /\ Valid(ret)) =>
    /\ ~ret.Value.nil
    /\ Len(ret.Value.elems) = Len(Elements)
    /\ \A i \in 1..Len(Elements) :
         ret.Value.elems[i] = ElementValue(call.fn, Elements[i])

\* ParseFloatSlice with a default converted the two pieces of "1,55".
FloatPiecesReached ==
  /\ call.fn = "ParseFloatSlice"
  /\ u = <<"k", "=", "1", ",", "5", "5">>
  /\ call.opt = <<Slice(<<15, 180>>)>>
  /\ ret.Value = Slice(<<10, 550>>)
  /\ ret.Error = NoError

-----------------------------------------------------------------------------
\* C28: the result of ParseStringSlice has Error = nil for every query,
\* key and default; when the first value is not empty its Value holds
\* every occurrence or every comma-separated piece as it is, the empty
\* ones too; and the validity flag of GetStringSlice is
\* Contains /\ ~Empty.
StringSliceNeverErrors ==
  /\ call.fn = "ParseStringSlice" =>
       /\ ret.Error = NoError
       /\ PresentValue => ret.Value = Slice(Elements)
  /\ call.fn = "GetStringSlice" =>
       LET res == ParseStringSlice(u, call.key, call.opt)
       IN /\ ret[2] = (res.Contains /\ ~res.Empty)
          /\ ret[2] = PresentValue

\* ParseStringSlice kept the empty piece after the trailing comma.
TrailingCommaKeptReached ==
  /\ call.fn = "ParseStringSlice"
  /\ u = <<"k", "=", "1", ",">>
  /\ ret.Value = Slice(<<<<"1">>, <<>>>>)
  /\ ret.Error = NoError

-----------------------------------------------------------------------------
\* C29: whatever the outcome (key absent, first value empty, conversion
\* error, value out of range, value accepted), the result of ParseInt or
\* ParseFloat called with two or more options has Min <= Max,
\* Min <= Default <= Max and a Value that lies in [Min, Max] or is one of
\* Others; the result of ParseString called with more than one option has
\* a Value that is one of Others.
ValueWithinConstraints ==
  /\ (call.fn \in {"ParseInt", "ParseFloat"} /\ Len(call.opt) >= 2) =>
       /\ ret.Min <= ret.Max
       /\ ret.Min <= ret.Default /\ ret.Default <= ret.Max
       /\ \/ ret.Min <= ret.Value /\ ret.Value <= ret.Max
          \/ ~ret.Others.nil /\ In(ret.Value, ret.Others.elems)
  /\ (call.fn = "ParseString" /\ Len(call.opt) > 1) =>
       ~ret.Others.nil /\ In(ret.Value, ret.Others.elems)

\* ParseFloat was given its range in descending order and a value below
\* it: the range is exchanged and the value stays the default.
DescendingRangeRejectedReached ==
  /\ call.fn = "ParseFloat"
  /\ call.opt = <<180, 15>>
  /\ u = <<"k", "=", "1">>
  /\ ret.Error = ErrRange(call.key)
  /\ ret.Min = 15 /\ ret.Max = 180
  /\ ret.Value = 180

-----------------------------------------------------------------------------
\* The list parser of the type of a scalar parser, and the reverse.
ListFnOf(fn) ==
  CASE fn = "ParseInt" -> "ParseIntSlice"
    [] fn = "ParseFloat" -> "ParseFloatSlice"
    [] fn = "ParseString" -> "ParseStringSlice"
    [] fn = "ParseBool" -> "ParseBoolSlice"

ScalarFnOf(fn) ==
  CASE fn = "ParseIntSlice" -> "ParseInt"
    [] fn = "ParseFloatSlice" -> "ParseFloat"
    [] fn = "ParseStringSlice" -> "ParseString"
    [] fn = "ParseBoolSlice" -> "ParseBool"

\* The key of the call occurs once in u, with a value that is not empty
\* and holds no comma, and the call has no options.
SingleElement ==
  /\ call.opt = <<>>
  /\ Present
  /\ Len(Data) = 1
  /\ Data[1] # <<>>
  /\ CommaFree(Data[1])

\* A scalar result and a list result that agree on one element.
Agree(scalar, list) ==
  /\ scalar.Error = list.Error
  /\ scalar.Error = NoError => list.Value = Slice(<<scalar.Value>>)
  /\ scalar.Error # NoError => list.Value = Slice(<<>>)

\* C30: for every type and every value s of the key that is not empty and
\* holds no comma, in any letter case, the list parser and the scalar
\* parser without options agree: the list parser succeeds with the
\* one-element Value [v] exactly when the scalar parser succeeds with
\* Value v, and one reports an error exactly when the other does.
ScalarListAgree ==
  /\ (call.fn \in ScalarParseFns /\ SingleElement) =>
       Agree(ret, ParseOf(ListFnOf(call.fn), u, call.key, <<>>))
  /\ (call.fn \in SliceParseFns /\ SingleElement) =>
       Agree(ParseOf(ScalarFnOf(call.fn), u, call.key, <<>>), ret)

\* ParseBool accepted the mixed-case value "On", as ParseBoolSlice does.
MixedCaseBoolReached ==
  /\ call.fn = "ParseBool"
  /\ call.opt = <<>>
  /\ u = <<"k", "=", "O", "n">>
  /\ ret.Error = NoError
  /\ ret.Value = TRUE
  /\ ParseBoolSlice(u, call.key, <<>>).Value = Slice(<<TRUE>>)

====
